---- MODULE Spec2Model ----
(***************************************************************************)
(* Morse code audio generator (pavelanni/morse-go).                        *)
(*                                                                         *)
(* The repository holds two versions of the program: main.go, which        *)
(* pre-generates one sample buffer per character (newMorseAudio) and       *)
(* copies buffers, and an earlier version (unnamed/part_000) which         *)
(* synthesizes every element inline.  Both are modelled; the variable      *)
(* prog says which one a run executes.                                     *)
(*                                                                         *)
(* Representation.  A Go string is a sequence of bytes (0..255), indexed   *)
(* from 1 here and from 0 in Go.  A []int16 sample buffer is kept          *)
(* run-length encoded as a sequence of segments                            *)
(*     [kind |-> "gap",  freq |-> 0, phase |-> 0, n |-> N]   N zero samples*)
(*     [kind |-> "tone", freq |-> F, phase |-> P, n |-> N]   the samples   *)
(*         int16(sin(2*pi*F*k/sampleRate) * 32767), k = P .. P+N-1         *)
(* so that sample COUNTS are exact and sample VALUES are the code's        *)
(* expression left unevaluated.                                            *)
(***************************************************************************)
EXTENDS Integers, Sequences, FiniteSets, TLC

\* main.go:16-18
sampleRate == 44100

\* Largest number of characters of an input text.
MaxLen == 3

(***************************************************************************)
(* Go integer division truncates toward zero (TLA+ \div floors).           *)
(***************************************************************************)
TruncDiv(a, b) ==
  LET q == (IF a < 0 THEN -a ELSE a) \div (IF b < 0 THEN -b ELSE b)
  IN IF (a < 0) = (b < 0) THEN q ELSE -q

Min(a, b) == IF a < b THEN a ELSE b

(***************************************************************************)
(* UTF-8, as the Go runtime decodes it in `for i, char := range s` and as  *)
(* strings.ToUpper encodes its result.                                     *)
(***************************************************************************)
RuneError == 65533

IsCont(b) == b >= 128 /\ b <= 191

\* utf8.DecodeRuneInString(s[i:]), i 1-based: the rune and its width in bytes.
\* An invalid or truncated encoding decodes as (RuneError, 1).
DecodeRune(s, i) ==
  LET b0  == s[i]
      n   == Len(s) - i + 1
      bad == [r |-> RuneError, w |-> 1]
  IN IF b0 < 128 THEN [r |-> b0, w |-> 1]
     ELSE IF b0 < 194 THEN bad
     ELSE IF b0 < 224 THEN
       IF n >= 2 /\ IsCont(s[i+1])
         THEN [r |-> (b0 - 192) * 64 + (s[i+1] - 128), w |-> 2]
         ELSE bad
     ELSE IF b0 < 240 THEN
       LET lo == IF b0 = 224 THEN 160 ELSE 128
           hi == IF b0 = 237 THEN 159 ELSE 191
       IN IF n >= 3 /\ s[i+1] >= lo /\ s[i+1] <= hi /\ IsCont(s[i+2])
            THEN [r |-> ((b0 - 224) * 64 + (s[i+1] - 128)) * 64 + (s[i+2] - 128),
                  w |-> 3]
            ELSE bad
     ELSE IF b0 < 245 THEN
       LET lo == IF b0 = 240 THEN 144 ELSE 128
           hi == IF b0 = 244 THEN 143 ELSE 191
       IN IF n >= 4 /\ s[i+1] >= lo /\ s[i+1] <= hi /\ IsCont(s[i+2]) /\ IsCont(s[i+3])
            THEN [r |-> (((b0 - 240) * 64 + (s[i+1] - 128)) * 64 + (s[i+2] - 128)) * 64
                          + (s[i+3] - 128),
                  w |-> 4]
            ELSE bad
     ELSE bad

\* utf8.AppendRune: the UTF-8 encoding of rune r.
EncodeRune(r) ==
  IF r < 0 \/ r > 1114111 \/ (r >= 55296 /\ r <= 57343)
    THEN <<239, 191, 189>>
  ELSE IF r < 128 THEN <<r>>
  ELSE IF r < 2048 THEN <<192 + (r \div 64), 128 + (r % 64)>>
  ELSE IF r < 65536
    THEN <<224 + (r \div 4096), 128 + ((r \div 64) % 64), 128 + (r % 64)>>
  ELSE <<240 + (r \div 262144), 128 + ((r \div 4096) % 64),
         128 + ((r \div 64) % 64), 128 + (r % 64)>>

\* unicode.CaseRanges, the upper-case column: the simple upper-case mapping of
\* the Unicode character database (version 14.0/15.0, which agree on it), for
\* the runes above ASCII.  An entry <<lo, hi, delta, step>> says that the runes
\* lo, lo+step, ..., hi have the upper case rune + delta; a rune in no entry
\* is its own upper case (so are U+00DF and the ligatures, whose upper case
\* is several characters and which unicode.ToUpper leaves alone).
UpperCaseRanges ==
  <<<<181, 181, 743, 1>>, <<224, 246, -32, 1>>, <<248, 254, -32, 1>>,
    <<255, 255, 121, 1>>, <<257, 303, -1, 2>>, <<305, 305, -232, 1>>,
    <<307, 311, -1, 2>>, <<314, 328, -1, 2>>, <<331, 375, -1, 2>>, <<378, 382, -1, 2>>,
    <<383, 383, -300, 1>>, <<384, 384, 195, 1>>, <<387, 389, -1, 2>>,
    <<392, 392, -1, 1>>, <<396, 396, -1, 1>>, <<402, 402, -1, 1>>, <<405, 405, 97, 1>>,
    <<409, 409, -1, 1>>, <<410, 410, 163, 1>>, <<414, 414, 130, 1>>,
    <<417, 421, -1, 2>>, <<424, 424, -1, 1>>, <<429, 429, -1, 1>>, <<432, 432, -1, 1>>,
    <<436, 438, -1, 2>>, <<441, 441, -1, 1>>, <<445, 445, -1, 1>>, <<447, 447, 56, 1>>,
    <<453, 453, -1, 1>>, <<454, 454, -2, 1>>, <<456, 456, -1, 1>>, <<457, 457, -2, 1>>,
    <<459, 459, -1, 1>>, <<460, 460, -2, 1>>, <<462, 476, -1, 2>>,
    <<477, 477, -79, 1>>, <<479, 495, -1, 2>>, <<498, 498, -1, 1>>,
    <<499, 499, -2, 1>>, <<501, 501, -1, 1>>, <<505, 543, -1, 2>>, <<547, 563, -1, 2>>,
    <<572, 572, -1, 1>>, <<575, 576, 10815, 1>>, <<578, 578, -1, 1>>,
    <<583, 591, -1, 2>>, <<592, 592, 10783, 1>>, <<593, 593, 10780, 1>>,
    <<594, 594, 10782, 1>>, <<595, 595, -210, 1>>, <<596, 596, -206, 1>>,
    <<598, 599, -205, 1>>, <<601, 601, -202, 1>>, <<603, 603, -203, 1>>,
    <<604, 604, 42319, 1>>, <<608, 608, -205, 1>>, <<609, 609, 42315, 1>>,
    <<611, 611, -207, 1>>, <<613, 613, 42280, 1>>, <<614, 614, 42308, 1>>,
    <<616, 616, -209, 1>>, <<617, 617, -211, 1>>, <<618, 618, 42308, 1>>,
    <<619, 619, 10743, 1>>, <<620, 620, 42305, 1>>, <<623, 623, -211, 1>>,
    <<625, 625, 10749, 1>>, <<626, 626, -213, 1>>, <<629, 629, -214, 1>>,
    <<637, 637, 10727, 1>>, <<640, 640, -218, 1>>, <<642, 642, 42307, 1>>,
    <<643, 643, -218, 1>>, <<647, 647, 42282, 1>>, <<648, 648, -218, 1>>,
    <<649, 649, -69, 1>>, <<650, 651, -217, 1>>, <<652, 652, -71, 1>>,
    <<658, 658, -219, 1>>, <<669, 669, 42261, 1>>, <<670, 670, 42258, 1>>,
    <<837, 837, 84, 1>>, <<881, 883, -1, 2>>, <<887, 887, -1, 1>>,
    <<891, 893, 130, 1>>, <<940, 940, -38, 1>>, <<941, 943, -37, 1>>,
    <<945, 961, -32, 1>>, <<962, 962, -31, 1>>, <<963, 971, -32, 1>>,
    <<972, 972, -64, 1>>, <<973, 974, -63, 1>>, <<976, 976, -62, 1>>,
    <<977, 977, -57, 1>>, <<981, 981, -47, 1>>, <<982, 982, -54, 1>>,
    <<983, 983, -8, 1>>, <<985, 1007, -1, 2>>, <<1008, 1008, -86, 1>>,
    <<1009, 1009, -80, 1>>, <<1010, 1010, 7, 1>>, <<1011, 1011, -116, 1>>,
    <<1013, 1013, -96, 1>>, <<1016, 1016, -1, 1>>, <<1019, 1019, -1, 1>>,
    <<1072, 1103, -32, 1>>, <<1104, 1119, -80, 1>>, <<1121, 1153, -1, 2>>,
    <<1163, 1215, -1, 2>>, <<1218, 1230, -1, 2>>, <<1231, 1231, -15, 1>>,
    <<1233, 1327, -1, 2>>, <<1377, 1414, -48, 1>>, <<4304, 4346, 3008, 1>>,
    <<4349, 4351, 3008, 1>>, <<5112, 5117, -8, 1>>, <<7296, 7296, -6254, 1>>,
    <<7297, 7297, -6253, 1>>, <<7298, 7298, -6244, 1>>, <<7299, 7300, -6242, 1>>,
    <<7301, 7301, -6243, 1>>, <<7302, 7302, -6236, 1>>, <<7303, 7303, -6181, 1>>,
    <<7304, 7304, 35266, 1>>, <<7545, 7545, 35332, 1>>, <<7549, 7549, 3814, 1>>,
    <<7566, 7566, 35384, 1>>, <<7681, 7829, -1, 2>>, <<7835, 7835, -59, 1>>,
    <<7841, 7935, -1, 2>>, <<7936, 7943, 8, 1>>, <<7952, 7957, 8, 1>>,
    <<7968, 7975, 8, 1>>, <<7984, 7991, 8, 1>>, <<8000, 8005, 8, 1>>,
    <<8017, 8023, 8, 2>>, <<8032, 8039, 8, 1>>, <<8048, 8049, 74, 1>>,
    <<8050, 8053, 86, 1>>, <<8054, 8055, 100, 1>>, <<8056, 8057, 128, 1>>,
    <<8058, 8059, 112, 1>>, <<8060, 8061, 126, 1>>, <<8064, 8071, 8, 1>>,
    <<8080, 8087, 8, 1>>, <<8096, 8103, 8, 1>>, <<8112, 8113, 8, 1>>,
    <<8115, 8115, 9, 1>>, <<8126, 8126, -7205, 1>>, <<8131, 8131, 9, 1>>,
    <<8144, 8145, 8, 1>>, <<8160, 8161, 8, 1>>, <<8165, 8165, 7, 1>>,
    <<8179, 8179, 9, 1>>, <<8526, 8526, -28, 1>>, <<8560, 8575, -16, 1>>,
    <<8580, 8580, -1, 1>>, <<9424, 9449, -26, 1>>, <<11312, 11359, -48, 1>>,
    <<11361, 11361, -1, 1>>, <<11365, 11365, -10795, 1>>, <<11366, 11366, -10792, 1>>,
    <<11368, 11372, -1, 2>>, <<11379, 11379, -1, 1>>, <<11382, 11382, -1, 1>>,
    <<11393, 11491, -1, 2>>, <<11500, 11502, -1, 2>>, <<11507, 11507, -1, 1>>,
    <<11520, 11557, -7264, 1>>, <<11559, 11559, -7264, 1>>, <<11565, 11565, -7264, 1>>,
    <<42561, 42605, -1, 2>>, <<42625, 42651, -1, 2>>, <<42787, 42799, -1, 2>>,
    <<42803, 42863, -1, 2>>, <<42874, 42876, -1, 2>>, <<42879, 42887, -1, 2>>,
    <<42892, 42892, -1, 1>>, <<42897, 42899, -1, 2>>, <<42900, 42900, 48, 1>>,
    <<42903, 42921, -1, 2>>, <<42933, 42947, -1, 2>>, <<42952, 42954, -1, 2>>,
    <<42961, 42961, -1, 1>>, <<42967, 42969, -1, 2>>, <<42998, 42998, -1, 1>>,
    <<43859, 43859, -928, 1>>, <<43888, 43967, -38864, 1>>, <<65345, 65370, -32, 1>>,
    <<66600, 66639, -40, 1>>, <<66776, 66811, -40, 1>>, <<66967, 66977, -39, 1>>,
    <<66979, 66993, -39, 1>>, <<66995, 67001, -39, 1>>, <<67003, 67004, -39, 1>>,
    <<68800, 68850, -64, 1>>, <<71872, 71903, -32, 1>>, <<93792, 93823, -32, 1>>,
    <<125218, 125251, -34, 1>>>>

\* unicode.ToUpper(r)
ToUpperRune(r) ==
  IF r < 128 THEN (IF r >= 97 /\ r <= 122 THEN r - 32 ELSE r)
  ELSE LET hits == {k \in 1..Len(UpperCaseRanges) :
                      /\ UpperCaseRanges[k][1] <= r
                      /\ r <= UpperCaseRanges[k][2]
                      /\ (r - UpperCaseRanges[k][1]) % UpperCaseRanges[k][4] = 0}
       IN IF hits = {} THEN r
          ELSE r + UpperCaseRanges[CHOOSE k \in hits : TRUE][3]

\* strings.ToUpper(s): every rune of s, decoded, mapped and encoded again
\* (an invalid byte becomes U+FFFD, three bytes).
RECURSIVE ToUpperFrom(_, _)
ToUpperFrom(s, i) ==
  IF i > Len(s) THEN <<>>
  ELSE LET d == DecodeRune(s, i)
       IN EncodeRune(ToUpperRune(d.r)) \o ToUpperFrom(s, i + d.w)

\* An ASCII-only string takes the byte-wise fast path of strings.ToUpper.
ToUpper(s) ==
  IF \A k \in 1..Len(s) : s[k] < 128
    THEN [k \in 1..Len(s) |-> IF s[k] >= 97 /\ s[k] <= 122 THEN s[k] - 32 ELSE s[k]]
    ELSE ToUpperFrom(s, 1)

\* The runes of s in order, as `range s` yields them.
RECURSIVE RunesFrom(_, _)
RunesFrom(s, i) ==
  IF i > Len(s) THEN <<>>
  ELSE LET d == DecodeRune(s, i) IN <<d.r>> \o RunesFrom(s, i + d.w)

Runes(s) == RunesFrom(s, 1)

(***************************************************************************)
(* The symbol table, keyed by rune; "." is a dot and "-" a dash.           *)
(***************************************************************************)
Dot == "."
Dash == "-"

morseCodeMap ==
  (65 :> <<".", "-">>) @@ (66 :> <<"-", ".", ".", ".">>) @@
  (67 :> <<"-", ".", "-", ".">>) @@ (68 :> <<"-", ".", ".">>) @@
  (69 :> <<".">>) @@ (70 :> <<".", ".", "-", ".">>) @@
  (71 :> <<"-", "-", ".">>) @@ (72 :> <<".", ".", ".", ".">>) @@
  (73 :> <<".", ".">>) @@ (74 :> <<".", "-", "-", "-">>) @@
  (75 :> <<"-", ".", "-">>) @@ (76 :> <<".", "-", ".", ".">>) @@
  (77 :> <<"-", "-">>) @@ (78 :> <<"-", ".">>) @@
  (79 :> <<"-", "-", "-">>) @@ (80 :> <<".", "-", "-", ".">>) @@
  (81 :> <<"-", "-", ".", "-">>) @@ (82 :> <<".", "-", ".">>) @@
  (83 :> <<".", ".", ".">>) @@ (84 :> <<"-">>) @@
  (85 :> <<".", ".", "-">>) @@ (86 :> <<".", ".", ".", "-">>) @@
  (87 :> <<".", "-", "-">>) @@ (88 :> <<"-", ".", ".", "-">>) @@
  (89 :> <<"-", ".", "-", "-">>) @@ (90 :> <<"-", "-", ".", ".">>) @@
  (48 :> <<"-", "-", "-", "-", "-">>) @@ (49 :> <<".", "-", "-", "-", "-">>) @@
  (50 :> <<".", ".", "-", "-", "-">>) @@ (51 :> <<".", ".", ".", "-", "-">>) @@
  (52 :> <<".", ".", ".", ".", "-">>) @@ (53 :> <<".", ".", ".", ".", ".">>) @@
  (54 :> <<"-", ".", ".", ".", ".">>) @@ (55 :> <<"-", "-", ".", ".", ".">>) @@
  (56 :> <<"-", "-", "-", ".", ".">>) @@ (57 :> <<"-", "-", "-", "-", ".">>) @@
  (47 :> <<"-", ".", ".", "-", ".">>) @@ (63 :> <<".", ".", "-", "-", ".", ".">>) @@
  (46 :> <<".", "-", ".", "-", ".", "-">>) @@ (44 :> <<"-", "-", ".", ".", "-", "-">>)

Supported(char) == char \in DOMAIN morseCodeMap

Space == 32

(***************************************************************************)
(* calculateMorseTiming: the five durations in milliseconds.               *)
(***************************************************************************)
DefaultWpm == 20

(***************************************************************************)
(* Go's int.  A value of type int is kept as its two's-complement digits   *)
(* in base 65536, least significant first: four digits on a build whose    *)
(* int has 64 bits, two digits on a build whose int has 32 (the ARM board  *)
(* the README names).  Arithmetic on it wraps as the machine's does.       *)
(***************************************************************************)
Base == 65536

\* The int n (|n| < 2^31) in k digits.
IntWord(n, k) ==
  [j \in 1..k |-> IF j = 1 THEN n % Base
                  ELSE IF j = 2 THEN (n \div Base) % Base
                  ELSE IF n < 0 THEN Base - 1 ELSE 0]

IsNegative(w) == w[Len(w)] >= Base \div 2

IsZero(w) == \A j \in 1..Len(w) : w[j] = 0

IsPositive(w) == ~IsNegative(w) /\ ~IsZero(w)

\* w * c, wrapped to the width of w (c a small non-negative constant).
RECURSIVE MulFrom(_, _, _, _)
MulFrom(w, j, c, carry) ==
  IF j > Len(w) THEN <<>>
  ELSE LET p == w[j] * c + carry
       IN <<p % Base>> \o MulFrom(w, j + 1, c, p \div Base)

MulWrap(w, c) == MulFrom(w, 1, c, 0)

\* -w, wrapped.
RECURSIVE NegFrom(_, _, _)
NegFrom(w, j, carry) ==
  IF j > Len(w) THEN <<>>
  ELSE LET p == (Base - 1 - w[j]) + carry
       IN <<p % Base>> \o NegFrom(w, j + 1, p \div Base)

Magnitude(w) == IF IsNegative(w) THEN NegFrom(w, 1, 1) ELSE w

\* |w| < 2^31
IsSmall(w) ==
  LET m == Magnitude(w)
  IN /\ ~IsNegative(m)
     /\ \A j \in 1..Len(m) : j >= 3 => m[j] = 0
     /\ (Len(m) >= 2 => m[2] < Base \div 2)

\* The value of a small w.
WordValue(w) ==
  LET m == Magnitude(w)
      v == m[1] + (IF Len(m) >= 2 THEN Base * m[2] ELSE 0)
  IN IF IsNegative(w) THEN -v ELSE v

\* A variant that takes speed 0 to the slowest speed instead of the default.
EffectiveWpm_ZeroIsOne(wpm) ==
  IF IsNegative(wpm) THEN IntWord(DefaultWpm, Len(wpm))
  ELSE IF IsZero(wpm) THEN IntWord(1, Len(wpm)) ELSE wpm

\* if wpm <= 0 { wpm = 20 }
EffectiveWpm(wpm) ==
  IF IsNegative(wpm) \/ IsZero(wpm) THEN IntWord(DefaultWpm, Len(wpm)) ELSE wpm

\* timeUnit := 60000 / (wpm * 50); the product wraps, and a product of
\* magnitude 2^31 or more gives the quotient 0.
TimeUnit(wpm) ==
  LET product == MulWrap(EffectiveWpm(wpm), 50)
  IN IF IsSmall(product) THEN TruncDiv(60000, WordValue(product)) ELSE 0

calculateMorseTiming(wpm) ==
  LET timeUnit == TimeUnit(wpm)
  IN [dotDuration  |-> timeUnit,
      dashDuration |-> timeUnit * 3,
      elementGap   |-> timeUnit,
      charGap      |-> timeUnit * 3,
      wordGap      |-> timeUnit * 7]

\* int(float64(ms) * sampleRate / 1000): the product is exact in float64 and
\* the conversion truncates toward zero.
MsToSamples(ms) == TruncDiv(ms * sampleRate, 1000)

(***************************************************************************)
(* Sample buffers, run-length encoded.                                     *)
(***************************************************************************)
GapSeg(n) == [kind |-> "gap", freq |-> 0, phase |-> 0, n |-> n]

ToneSeg(freq, phase, n) == [kind |-> "tone", freq |-> freq, phase |-> phase, n |-> n]

\* len(buffer)
RECURSIVE SegLen(_)
SegLen(segs) == IF segs = <<>> THEN 0 ELSE Head(segs).n + SegLen(Tail(segs))

\* Canonical form: no empty segment, no two adjacent runs of zeros.
RECURSIVE Norm(_)
Norm(segs) ==
  IF segs = <<>> THEN <<>>
  ELSE LET h == Head(segs)
           t == Norm(Tail(segs))
       IN IF h.n <= 0 THEN t
          ELSE IF h.kind = "gap" /\ t # <<>> /\ Head(t).kind = "gap"
            THEN <<GapSeg(h.n + Head(t).n)>> \o Tail(t)
          ELSE <<h>> \o t

\* buffer[:k]
RECURSIVE TakeSamples(_, _)
TakeSamples(segs, k) ==
  IF k <= 0 \/ segs = <<>> THEN <<>>
  ELSE LET h == Head(segs)
       IN IF h.n <= k THEN <<h>> \o TakeSamples(Tail(segs), k - h.n)
          ELSE <<[h EXCEPT !.n = k]>>

\* buffer[k:]; the rest of a tone keeps its phase.
RECURSIVE DropSamples(_, _)
DropSamples(segs, k) ==
  IF segs = <<>> THEN <<>>
  ELSE IF k <= 0 THEN segs
  ELSE LET h == Head(segs)
       IN IF h.n <= k THEN DropSamples(Tail(segs), k - h.n)
          ELSE <<[h EXCEPT !.n = h.n - k,
                           !.phase = IF h.kind = "tone" THEN h.phase + k ELSE 0]>>
               \o Tail(segs)

\* make([]int16, n)
MakeSamples(n) == Norm(<<GapSeg(n)>>)

\* copy(dst[at:], src), at <= len(dst): min(len(src), len(dst)-at) samples are
\* copied, the rest of dst is kept.
CopyAt(dst, at, src) ==
  LET c == Min(SegLen(src), SegLen(dst) - at)
  IN Norm(TakeSamples(dst, at) \o TakeSamples(src, c) \o DropSamples(dst, at + c))

(***************************************************************************)
(* newMorseAudio (main.go): the pre-generated buffers.                     *)
(***************************************************************************)
\* The tone loops of newMorseAudio and of the inline version: sample k of a
\* tone is computed from k alone, so every tone starts at phase 0.
GenerateTone(freq, n) == <<ToneSeg(freq, 0, n)>>

\* A variant that puts an element gap after the last element too.
RECURSIVE CharSamplesFrom_TrailingGap(_, _, _, _, _)
CharSamplesFrom_TrailingGap(code, j, dot, dash, elementGapAudio) ==
  IF j > Len(code) THEN <<>>
  ELSE (IF code[j] = Dot THEN dot ELSE IF code[j] = Dash THEN dash ELSE <<>>)
       \o elementGapAudio
       \o CharSamplesFrom_TrailingGap(code, j + 1, dot, dash, elementGapAudio)

\* main.go:89-99, the samples of one character.
RECURSIVE CharSamplesFrom(_, _, _, _, _)
CharSamplesFrom(code, j, dot, dash, elementGapAudio) ==
  IF j > Len(code) THEN <<>>
  ELSE (IF code[j] = Dot THEN dot ELSE IF code[j] = Dash THEN dash ELSE <<>>)
       \o (IF j - 1 < Len(code) - 1 THEN elementGapAudio ELSE <<>>)
       \o CharSamplesFrom(code, j + 1, dot, dash, elementGapAudio)

newMorseAudio(wpm, freq) ==
  LET t    == calculateMorseTiming(wpm)
      dot  == GenerateTone(freq, MsToSamples(t.dotDuration))
      dash == GenerateTone(freq, MsToSamples(t.dashDuration))
      elementGapAudio == <<GapSeg(MsToSamples(t.elementGap))>>
  IN [dotSamples  |-> dot,
      dashSamples |-> dash,
      elementGap  |-> elementGapAudio,
      charGap     |-> <<GapSeg(MsToSamples(t.charGap))>>,
      wordGap     |-> <<GapSeg(MsToSamples(t.wordGap))>>,
      charSamples |-> [char \in DOMAIN morseCodeMap |->
                         CharSamplesFrom(morseCodeMap[char], 1, dot, dash, elementGapAudio)]]

\* make([]int16, n) panics (makeslice: len out of range) when n < 0; the
\* five makes of newMorseAudio have the lengths of the five durations.
newMorseAudioPanics(wpm) ==
  LET t == calculateMorseTiming(wpm)
  IN \E ms \in {t.dotDuration, t.dashDuration, t.elementGap, t.charGap, t.wordGap} :
       MsToSamples(ms) < 0

\* unnamed/part_000:52-59, the sample counts the inline version works with.
SampleCounts(wpm) ==
  LET t == calculateMorseTiming(wpm)
  IN [dotSamples        |-> MsToSamples(t.dotDuration),
      dashSamples       |-> MsToSamples(t.dashDuration),
      elementGapSamples |-> MsToSamples(t.elementGap),
      charGapSamples    |-> MsToSamples(t.charGap),
      wordGapSamples    |-> MsToSamples(t.wordGap)]

(***************************************************************************)
(* generateMorseAudio.  i is the 0-based byte index `range` yields for     *)
(* the character in the UPPER-CASED text; the gap test reads the ORIGINAL  *)
(* text at that byte index.                                                *)
(***************************************************************************)
Main == "main.go"
Inline == "part_000"

\* i < len(text)-1 && text[i+1] != ' '
CharGapFollows(text, i) == i < Len(text) - 1 /\ text[i + 2] # Space

\* unnamed/part_000:70-79, the sample count of one character's elements.
RECURSIVE ElementsCount(_, _, _)
ElementsCount(code, j, c) ==
  IF j > Len(code) THEN 0
  ELSE (IF code[j] = Dot THEN c.dotSamples
        ELSE IF code[j] = Dash THEN c.dashSamples ELSE 0)
       + (IF j - 1 < Len(code) - 1 THEN c.elementGapSamples ELSE 0)
       + ElementsCount(code, j + 1, c)

\* A variant of the pre-pass that forgets the character gap.
PrePassAdd_NoCharGap(p, m, text, i, char) ==
  IF char = Space
    THEN IF p = Main THEN SegLen(m.wordGap) ELSE m.wordGapSamples
  ELSE IF Supported(char)
    THEN IF p = Main THEN SegLen(m.charSamples[char])
                     ELSE ElementsCount(morseCodeMap[char], 1, m)
  ELSE 0

\* One iteration of the pre-pass loop: what it adds to totalSamples.
PrePassAdd(p, m, text, i, char) ==
  IF char = Space
    THEN IF p = Main THEN SegLen(m.wordGap) ELSE m.wordGapSamples
  ELSE IF Supported(char)
    THEN (IF p = Main THEN SegLen(m.charSamples[char])
                      ELSE ElementsCount(morseCodeMap[char], 1, m))
         + (IF CharGapFollows(text, i)
              THEN IF p = Main THEN SegLen(m.charGap) ELSE m.charGapSamples
              ELSE 0)
  ELSE 0

\* main.go: copy(samples[currentSample:], src); currentSample += len(src).
\* Slicing past the end of samples panics.
CopyAdvance(st, src) ==
  IF st.panicked THEN st
  ELSE IF st.currentSample > SegLen(st.samples) \/ st.currentSample < 0
    THEN [st EXCEPT !.panicked = TRUE]
  ELSE [st EXCEPT !.samples = CopyAt(st.samples, st.currentSample, src),
                  !.currentSample = st.currentSample + SegLen(src)]

\* unnamed/part_000:104-109: the tone is written sample by sample, each write
\* guarded by currentSample+k < len(samples).
ToneAdvance(st, freq, duration) ==
  [st EXCEPT !.samples = IF st.currentSample < SegLen(st.samples)
                           THEN CopyAt(st.samples, st.currentSample,
                                       GenerateTone(freq, duration))
                           ELSE st.samples,
             !.currentSample = st.currentSample + duration]

\* unnamed/part_000:97-115, the elements of one character.
RECURSIVE ElementsWrite(_, _, _, _, _)
ElementsWrite(code, j, c, freq, st) ==
  IF j > Len(code) THEN st
  ELSE LET duration == IF code[j] = Dash THEN c.dashSamples ELSE c.dotSamples
           s1 == ToneAdvance(st, freq, duration)
           s2 == IF j - 1 < Len(code) - 1
                   THEN [s1 EXCEPT !.currentSample = s1.currentSample + c.elementGapSamples]
                   ELSE s1
       IN ElementsWrite(code, j + 1, c, freq, s2)

\* One iteration of the generation loop on st = [samples, currentSample, panicked].
GenChar(p, m, freq, text, i, char, st) ==
  IF char = Space
    THEN IF p = Main THEN CopyAdvance(st, m.wordGap)
         ELSE [st EXCEPT !.currentSample = st.currentSample + m.wordGapSamples]
  ELSE IF Supported(char)
    THEN IF p = Main
           THEN LET s1 == CopyAdvance(st, m.charSamples[char])
                IN IF CharGapFollows(text, i) THEN CopyAdvance(s1, m.charGap) ELSE s1
           ELSE LET s1 == ElementsWrite(morseCodeMap[char], 1, m, freq, st)
                IN IF CharGapFollows(text, i)
                     THEN [s1 EXCEPT !.currentSample = s1.currentSample + m.charGapSamples]
                     ELSE s1
  ELSE st

\* The per-run tables: morse (main.go) or the five sample counts (part_000).
Tables(p, wpm, freq) == IF p = Main THEN newMorseAudio(wpm, freq) ELSE SampleCounts(wpm)

RECURSIVE PrePassFrom(_, _, _, _, _)
PrePassFrom(p, m, text, up, i) ==
  IF i >= Len(up) THEN 0
  ELSE LET d == DecodeRune(up, i + 1)
       IN PrePassAdd(p, m, text, i, d.r) + PrePassFrom(p, m, text, up, i + d.w)

RECURSIVE GenFrom(_, _, _, _, _, _, _)
GenFrom(p, m, freq, text, up, i, st) ==
  IF i >= Len(up) \/ st.panicked THEN st
  ELSE LET d == DecodeRune(up, i + 1)
       IN GenFrom(p, m, freq, text, up, i + d.w, GenChar(p, m, freq, text, i, d.r, st))

\* The whole function: the returned samples and count (or a panic).
generateMorseAudio(p, text, wpm, freq) ==
  IF p = Main /\ newMorseAudioPanics(wpm)
    THEN [samples |-> <<>>, totalSamples |-> 0, currentSample |-> 0, panicked |-> TRUE]
  ELSE
  LET m     == Tables(p, wpm, freq)
      up    == ToUpper(text)
      total == PrePassFrom(p, m, text, up, 0)
      st    == GenFrom(p, m, freq, text, up, 0,
                       [samples |-> MakeSamples(total), currentSample |-> 0,
                        panicked |-> total < 0])
  IN [samples |-> st.samples, totalSamples |-> total,
      currentSample |-> st.currentSample, panicked |-> st.panicked]

(***************************************************************************)
(* writeWavHeader and the PCM data main writes after it.                   *)
(***************************************************************************)
\* uint32(x) for 0 <= x < 2^31, low and high 16-bit halves taken apart.
Uint32(x) == (x % 65536) + 65536 * ((x \div 65536) % 65536)

\* binary.Write(w, binary.LittleEndian, uint32(x))
LE32(x) ==
  LET u == Uint32(x)
  IN <<u % 256, (u \div 256) % 256, (u \div 65536) % 256, (u \div 16777216) % 256>>

\* binary.Write(w, binary.LittleEndian, uint16(x))
LE16(x) == <<x % 256, (x \div 256) % 256>>

\* The little-endian 32-bit field at 0-based offset off.
ReadLE32(bytes, off) ==
  bytes[off + 1] + 256 * bytes[off + 2] + 65536 * bytes[off + 3] + 16777216 * bytes[off + 4]

RIFF == <<82, 73, 70, 70>>
WAVE == <<87, 65, 86, 69>>
FmtTag == <<102, 109, 116, 32>>
DataTag == <<100, 97, 116, 97>>

\* A variant whose total-size field leaves out the 36 header bytes.
writeWavHeader_NoHeaderBytes(dataSize, rate) ==
  RIFF \o LE32(dataSize) \o WAVE
  \o FmtTag \o LE32(16) \o LE16(1) \o LE16(1)
  \o LE32(rate) \o LE32(rate * 2) \o LE16(2) \o LE16(16)
  \o DataTag \o LE32(dataSize)

writeWavHeader(dataSize, rate) ==
  RIFF \o LE32(36 + dataSize) \o WAVE
  \o FmtTag \o LE32(16) \o LE16(1) \o LE16(1)
  \o LE32(rate) \o LE32(rate * 2) \o LE16(2) \o LE16(16)
  \o DataTag \o LE32(dataSize)

(***************************************************************************)
(* The inputs of a run.                                                    *)
(***************************************************************************)
\* The characters texts are made of, as byte strings: 'S', 's', 'O', ' ',
\* '#' (unsupported), U+0131 (two bytes; its upper case 'I' is one byte and
\* supported) and U+0250 (two bytes; its upper case takes three).
Atoms == {<<83>>, <<115>>, <<79>>, <<32>>, <<35>>, <<196, 177>>, <<201, 144>>}

RECURSIVE TextsOfLen(_)
TextsOfLen(n) ==
  IF n = 0 THEN {<<>>}
  ELSE {t \o a : t \in TextsOfLen(n - 1), a \in Atoms}

Texts == UNION {TextsOfLen(n) : n \in 0..MaxLen}

\* A speed as a 64-bit int, and as a 32-bit int.
Wpm64(n) == IntWord(n, 4)

Wpm32(n) == IntWord(n, 2)

\* 368934881474191032: times 50 it wraps a 64-bit int to -16.
WpmWrapsNegative64 == <<7864, 60293, 47185, 1310>>

\* 368934881474191033: times 50 it wraps a 64-bit int to 34.
WpmWrapsPositive64 == <<7865, 60293, 47185, 1310>>

\* 85899345: times 50 it wraps a 32-bit int to -46.
WpmWrapsNegative32 == <<47185, 1310>>

\* Speeds: non-positive (replaced by the default), one whose time unit is
\* truncated (60000/350), the default, one whose time unit is 0, and speeds
\* whose product with 50 does not fit the int.
Wpms == {Wpm64(-3), Wpm64(0), Wpm64(7), Wpm64(20), Wpm64(1300),
         WpmWrapsNegative64, WpmWrapsPositive64, WpmWrapsNegative32}

Freqs == {600, 880}

Progs == {Main, Inline}

(***************************************************************************)
(* The program: main() of either version, one step per loop iteration of   *)
(* generateMorseAudio.                                                     *)
(***************************************************************************)
VARIABLES
  prog,           \* which version runs
  text, wpm, freq,\* the flags
  pc,             \* "start", "prepass", "generate", "returned", "header", "done",
                  \* "panic: makeslice", "panic: slice bounds"
  morse,          \* the pre-generated buffers (main.go) or sample counts (part_000)
  upper,          \* strings.ToUpper(text), the string both loops range over
  i,              \* byte index of the loop's current character in upper
  totalSamples,
  samples,
  currentSample,
  buf             \* the WAV buffer: header bytes and PCM samples

vars == <<prog, text, wpm, freq, pc, morse, upper, i, totalSamples, samples,
          currentSample, buf>>

None == <<>>

Init ==
  /\ prog \in Progs
  /\ text \in Texts
  /\ wpm \in Wpms
  /\ freq \in Freqs
  /\ (freq = 600 \/ wpm = Wpm64(DefaultWpm))
  /\ pc = "start"
  /\ morse = None
  /\ upper = <<>>
  /\ i = 0
  /\ totalSamples = 0
  /\ samples = <<>>
  /\ currentSample = 0
  /\ buf = [header |-> <<>>, pcm |-> <<>>]

\* generateMorseAudio is entered: the tables are built (main.go:115,
\* part_000:52-59) and the pre-pass starts with totalSamples = 0.
Enter ==
  /\ pc = "start"
  /\ IF prog = Main /\ newMorseAudioPanics(wpm)
       THEN /\ pc' = "panic: makeslice"
            /\ UNCHANGED <<morse, upper>>
       ELSE /\ morse' = Tables(prog, wpm, freq)
            /\ upper' = ToUpper(text)
            /\ pc' = "prepass"
  /\ i' = 0
  /\ totalSamples' = 0
  /\ UNCHANGED <<prog, text, wpm, freq, samples, currentSample, buf>>

\* One iteration of the pre-pass loop.
PrePassStep ==
  /\ pc = "prepass"
  /\ i < Len(upper)
  /\ LET d == DecodeRune(upper, i + 1)
     IN /\ totalSamples' = totalSamples + PrePassAdd(prog, morse, text, i, d.r)
        /\ i' = i + d.w
  /\ UNCHANGED <<prog, text, wpm, freq, pc, morse, upper, samples, currentSample, buf>>

\* samples := make([]int16, totalSamples); currentSample := 0
Allocate ==
  /\ pc = "prepass"
  /\ i >= Len(upper)
  /\ samples' = MakeSamples(totalSamples)
  /\ currentSample' = 0
  /\ i' = 0
  /\ pc' = IF totalSamples < 0 THEN "panic: makeslice" ELSE "generate"
  /\ UNCHANGED <<prog, text, wpm, freq, morse, upper, totalSamples, buf>>

\* One iteration of the generation loop.
GenStep ==
  /\ pc = "generate"
  /\ i < Len(upper)
  /\ LET d  == DecodeRune(upper, i + 1)
         st == GenChar(prog, morse, freq, text, i, d.r,
                       [samples |-> samples, currentSample |-> currentSample,
                        panicked |-> FALSE])
     IN /\ samples' = st.samples
        /\ currentSample' = st.currentSample
        /\ i' = i + d.w
        /\ pc' = IF st.panicked THEN "panic: slice bounds" ELSE "generate"
  /\ UNCHANGED <<prog, text, wpm, freq, morse, upper, totalSamples, buf>>

\* return samples, totalSamples
Return ==
  /\ pc = "generate"
  /\ i >= Len(upper)
  /\ pc' = "returned"
  /\ morse' = None
  /\ UNCHANGED <<prog, text, wpm, freq, upper, i, totalSamples, samples,
                 currentSample, buf>>

\* writeWavHeader(buf, totalSamples*2, sampleRate)
WriteHeader ==
  /\ pc = "returned"
  /\ buf' = [buf EXCEPT !.header = writeWavHeader(totalSamples * 2, sampleRate)]
  /\ pc' = "header"
  /\ UNCHANGED <<prog, text, wpm, freq, morse, upper, i, totalSamples, samples,
                 currentSample>>

\* for _, sample := range samples { binary.Write(buf, LittleEndian, sample) }
WritePCM ==
  /\ pc = "header"
  /\ buf' = [buf EXCEPT !.pcm = samples]
  /\ pc' = "done"
  /\ UNCHANGED <<prog, text, wpm, freq, morse, upper, i, totalSamples, samples,
                 currentSample>>

Next ==
  \/ Enter
  \/ PrePassStep
  \/ Allocate
  \/ GenStep
  \/ Return
  \/ WriteHeader
  \/ WritePCM

Spec == Init /\ [][Next]_vars

\* The bytes of the WAV buffer: the header and two bytes per sample.
BufLen == Len(buf.header) + 2 * SegLen(buf.pcm)

(***************************************************************************)
(* Vocabulary of the properties.                                           *)
(***************************************************************************)
\* The character the loop is at, and how many characters precede it.
CurChar == DecodeRune(upper, i + 1).r

CharsBefore == Len(Runes(SubSeq(upper, 1, i)))

\* The characters of the input text.
TextChars == Runes(text)

\* The current character is not the last character of the text and the
\* character after it is not a space.
NextCharIsNonSpace ==
  /\ CharsBefore + 1 < Len(TextChars)
  /\ TextChars[CharsBefore + 2] # Space

NextCharIsSpace ==
  /\ CharsBefore + 1 < Len(TextChars)
  /\ TextChars[CharsBefore + 2] = Space

\* A step of the generation loop is being taken.
GenStepTaken == pc = "generate" /\ i < Len(upper) /\ i' > i

\* Sample counts derived from a time unit of u milliseconds.
CountsOf(u) ==
  [dotSamples        |-> TruncDiv(u * 44100, 1000),
   dashSamples       |-> TruncDiv(3 * u * 44100, 1000),
   elementGapSamples |-> TruncDiv(u * 44100, 1000),
   charGapSamples    |-> TruncDiv(3 * u * 44100, 1000),
   wordGapSamples    |-> TruncDiv(7 * u * 44100, 1000)]

\* The samples of a character's symbol sequence at the run's speed.
SymbolsLen(char) == ElementsCount(morseCodeMap[char], 1, SampleCounts(wpm))

Returned == pc \in {"returned", "header", "done"}

\* The time unit of the run's speed over the integers: the truncating
\* quotient 60000 / (wpm * 50), which is 0 from 1201 WPM on.
QuotientOfWpm ==
  IF IsSmall(wpm) /\ WordValue(wpm) <= 1200
    THEN 60000 \div (WordValue(wpm) * 50)
    ELSE 0

(***************************************************************************)
(* C1.  For every WPM > 0 calculateMorseTiming returns (u, 3u, u, 3u, 7u)  *)
(* with u the truncating quotient 60000 / (wpm * 50); the tables a run     *)
(* builds are the sample counts of these five durations.                   *)
(***************************************************************************)
C1_TimingOfPositiveWpm ==
  (IsPositive(wpm) /\ pc # "start") =>
    LET u == QuotientOfWpm
        t == calculateMorseTiming(wpm)
    IN /\ t = [dotDuration |-> u, dashDuration |-> 3 * u, elementGap |-> u,
               charGap |-> 3 * u, wordGap |-> 7 * u]
       /\ t.dashDuration = 3 * t.dotDuration
       /\ t.charGap = 3 * t.dotDuration
       /\ t.wordGap = 7 * t.dotDuration
       /\ (pc \in {"prepass", "generate"} /\ prog = Inline => morse = CountsOf(u))
       /\ (pc \in {"prepass", "generate"} /\ prog = Main =>
             /\ morse.dotSamples = <<ToneSeg(freq, 0, CountsOf(u).dotSamples)>>
             /\ morse.dashSamples = <<ToneSeg(freq, 0, CountsOf(u).dashSamples)>>
             /\ morse.elementGap = <<GapSeg(CountsOf(u).elementGapSamples)>>
             /\ morse.charGap = <<GapSeg(CountsOf(u).charGapSamples)>>
             /\ morse.wordGap = <<GapSeg(CountsOf(u).wordGapSamples)>>)

(***************************************************************************)
(* C2.  A WPM <= 0 is replaced by 20: the timing is that of 20 WPM and     *)
(* generateMorseAudio returns what it returns at 20 WPM.                   *)
(***************************************************************************)
C2_NonPositiveWpmIsDefault ==
  ~IsPositive(wpm) =>
    /\ calculateMorseTiming(wpm) = calculateMorseTiming(IntWord(20, Len(wpm)))
    /\ calculateMorseTiming(wpm) =
         [dotDuration |-> 60, dashDuration |-> 180, elementGap |-> 60,
          charGap |-> 180, wordGap |-> 420]
    /\ pc \notin {"panic: makeslice", "panic: slice bounds"}
    /\ (pc = "returned" =>
          LET g == generateMorseAudio(prog, text, IntWord(20, Len(wpm)), freq)
          IN ~g.panicked /\ samples = g.samples /\ totalSamples = g.totalSamples)

\* A run with WPM 0 has returned a non-empty buffer.
C2_Witness ==
  /\ wpm = Wpm64(0)
  /\ pc = "returned"
  /\ text = <<83, 32, 79>>
  /\ totalSamples > 0

(***************************************************************************)
(* C3.  After a supported character's symbols a character gap is appended  *)
(* if and only if the character is not the last character of the text and  *)
(* the next character of the text is not a space, whatever the characters'  *)
(* byte widths: the step on a supported character advances the cursor by   *)
(* the symbols' samples, plus the character gap exactly in that case.       *)
(***************************************************************************)
C3_CharGapIffNextCharNonSpace ==
  [][(GenStepTaken /\ Supported(CurChar)) =>
       currentSample' - currentSample =
         SymbolsLen(CurChar)
         + (IF NextCharIsNonSpace THEN SampleCounts(wpm).charGapSamples ELSE 0)]_vars

(***************************************************************************)
(* C4.  Synthesis is case-insensitive: a text and its upper-cased form give *)
(* the same samples and the same count.                                     *)
(***************************************************************************)
C4_CaseInsensitive ==
  pc = "returned" =>
    LET g == generateMorseAudio(prog, ToUpper(text), wpm, freq)
    IN samples = g.samples /\ totalSamples = g.totalSamples

(***************************************************************************)
(* C5.  A space contributes exactly one word gap of zeros and nothing else; *)
(* a supported character immediately followed by a space gets no character  *)
(* gap; the text " " yields exactly one word gap.                           *)
(***************************************************************************)
C5_SpaceIsOneWordGap ==
  [][/\ (GenStepTaken /\ CurChar = Space) =>
          /\ currentSample' - currentSample = SampleCounts(wpm).wordGapSamples
          /\ samples' = samples
     /\ (GenStepTaken /\ Supported(CurChar) /\ NextCharIsSpace) =>
          currentSample' - currentSample = SymbolsLen(CurChar)
     /\ (pc' = "returned" /\ text = <<Space>>) =>
          /\ samples' = MakeSamples(SampleCounts(wpm).wordGapSamples)
          /\ totalSamples' = SampleCounts(wpm).wordGapSamples]_vars

(***************************************************************************)
(* C6.  An unsupported character contributes no samples and no gap of its   *)
(* own; its only effect is that a supported character directly before it    *)
(* keeps its trailing character gap.  So the output is the concatenation,   *)
(* character by character, of a word gap per space and of the symbols of    *)
(* each supported character followed by a character gap when another        *)
(* non-space character (supported or not) follows.                          *)
(***************************************************************************)
RECURSIVE Contributions(_, _, _)
Contributions(chars, k, m) ==
  IF k > Len(chars) THEN <<>>
  ELSE (IF chars[k] = Space THEN m.wordGap
        ELSE IF Supported(chars[k])
          THEN m.charSamples[chars[k]]
               \o (IF k < Len(chars) /\ chars[k + 1] # Space THEN m.charGap ELSE <<>>)
        ELSE <<>>)
       \o Contributions(chars, k + 1, m)

\* Every supported character of the text is a one-byte character, and the
\* text holds an unsupported character.
C6_Case ==
  /\ \A k \in 1..Len(TextChars) :
       Supported(ToUpperRune(TextChars[k])) => TextChars[k] < 128
  /\ \E k \in 1..Len(TextChars) :
       TextChars[k] # Space /\ ~Supported(ToUpperRune(TextChars[k]))

C6_UnsupportedContributesNothing ==
  (pc = "returned" /\ C6_Case) =>
    /\ samples = Norm(Contributions(Runes(ToUpper(text)), 1, newMorseAudio(wpm, freq)))
    /\ totalSamples = SegLen(samples)

(***************************************************************************)
(* C7.  The container main writes: a 44-byte header whose data-length field *)
(* is 2 x (samples returned) and whose total-size field is 36 more, as      *)
(* unsigned 32-bit values, followed by exactly that many bytes; for the     *)
(* empty text, no samples, data length 0 and total size 36.                 *)
(***************************************************************************)
C7_WavHeaderSizes ==
  /\ pc \in {"header", "done"} =>
       /\ Len(buf.header) = 44
       /\ ReadLE32(buf.header, 40) = Uint32(2 * SegLen(samples))
       /\ ReadLE32(buf.header, 4) = Uint32(36 + 2 * SegLen(samples))
       /\ SubSeq(buf.header, 1, 4) = RIFF
       /\ SubSeq(buf.header, 37, 40) = DataTag
  /\ pc = "done" =>
       /\ BufLen - 44 = ReadLE32(buf.header, 40)
       /\ buf.pcm = samples
       /\ (text = <<>> =>
             /\ samples = <<>>
             /\ ReadLE32(buf.header, 40) = 0
             /\ ReadLE32(buf.header, 4) = 36
             /\ BufLen = 44)

\* The buffer of "SOS" at 20 WPM is complete: 142884 data bytes.
C7_Witness ==
  /\ pc = "done"
  /\ text = <<83, 79, 83>>
  /\ wpm = Wpm64(20)
  /\ ReadLE32(buf.header, 40) = 142884
  /\ ReadLE32(buf.header, 4) = 142920
  /\ BufLen = 142928

(***************************************************************************)
(* C8.  "SOS" at 20 WPM and 600 Hz: time unit 60 ms, dot 2646, dash 7938,   *)
(* element gap 2646 and character gap 7938 samples; 71442 samples returned: *)
(* S, gap, O, gap, S with no character gap after the final S.               *)
(***************************************************************************)
C8_Case == text = <<83, 79, 83>> /\ wpm = Wpm64(20) /\ freq = 600

C8_SosSampleCount ==
  (C8_Case /\ Returned) =>
    LET dot  == ToneSeg(600, 0, 2646)
        dash == ToneSeg(600, 0, 7938)
        eg   == GapSeg(2646)
        cg   == GapSeg(7938)
    IN /\ calculateMorseTiming(wpm).dotDuration = 60
       /\ totalSamples = 71442
       /\ SegLen(samples) = 71442
       /\ totalSamples = 2 * (3 * 2646 + 2 * 2646) + (3 * 7938 + 2 * 2646) + 2 * 7938
       /\ samples = <<dot, eg, dot, eg, dot, cg, dash, eg, dash, eg, dash, cg,
                      dot, eg, dot, eg, dot>>

C8_Witness == C8_Case /\ pc = "returned" /\ prog = Main /\ currentSample = 71442

(***************************************************************************)
(* C9.  The pre-pass and the generation pass agree: the write cursor never *)
(* passes totalSamples (no write is dropped, truncated or out of bounds),   *)
(* the buffer keeps the length the pre-pass gave it, and at the end         *)
(* currentSample = totalSamples = len(samples).  (A run whose sample       *)
(* counts are negative stops in a make before the generation pass starts.) *)
(***************************************************************************)
C9_PassesAgree ==
  /\ pc # "panic: slice bounds"
  /\ pc = "generate" =>
       /\ 0 <= currentSample
       /\ currentSample <= totalSamples
       /\ SegLen(samples) = totalSamples
       /\ SegLen(TakeSamples(samples, currentSample)) = currentSample
       /\ DropSamples(samples, currentSample) = MakeSamples(totalSamples - currentSample)
       /\ (i >= Len(upper) => currentSample = totalSamples)
  /\ Returned =>
       /\ currentSample = totalSamples
       /\ SegLen(samples) = totalSamples

\* Midway through the generation pass of a text whose upper-cased form has
\* another byte length, with samples written and samples still to write.
C9_Witness ==
  /\ pc = "generate"
  /\ 0 < i
  /\ i < Len(upper)
  /\ Len(upper) # Len(text)
  /\ 0 < currentSample
  /\ currentSample < totalSamples

(***************************************************************************)
(* C10.  The two versions of generateMorseAudio return the same count and   *)
(* the same samples; every tone starts at phase 0 and every gap is zeros.   *)
(***************************************************************************)
OtherProg == IF prog = Main THEN Inline ELSE Main

C10_VersionsEquivalent ==
  /\ pc = "returned" =>
       LET g == generateMorseAudio(OtherProg, text, wpm, freq)
       IN /\ ~g.panicked
          /\ samples = g.samples
          /\ totalSamples = g.totalSamples
          /\ \A k \in 1..Len(samples) :
               /\ samples[k].phase = 0
               /\ samples[k].kind = "tone" => samples[k].freq = freq
  /\ pc \in {"panic: makeslice", "panic: slice bounds"} =>
       generateMorseAudio(OtherProg, text, wpm, freq).panicked

====
